---- MODULE Spec2Model ----
(***************************************************************************)
(* pdf2docx/image/ImagesExtractor.py: extraction of raster images          *)
(* (extract_images, _recover_pixmap) and of vector graphics                *)
(* (extract_vector_graphics, _detect_svg_contours) from one PDF page.      *)
(*                                                                         *)
(* Rectangles are tuples <<x0, y0, x1, y1>>.  A Pixmap is a record         *)
(* [colorspace, width, height, alpha, asamples, samples]: alpha is 0 or 1, *)
(* asamples the alpha bytes (one per pixel when alpha = 1), samples the    *)
(* gray bytes of a soft mask object (color samples of other images are not *)
(* read by this code and are left out).                                    *)
(***************************************************************************)
EXTENDS Integers, Sequences, FiniteSets, TLC

VARIABLES
    pc,             \* position: "call", "loop", "detected", "grouped", "clip", "done", "raised"
    call,           \* entry point under execution: "images", "vector", "pixmap"
    doc,            \* page.parent: xref -> Pixmap decoded by fitz.Pixmap(doc, xref)
    items,          \* page.getImageList(full=True), with the outcome of getImageBbox
    streams,        \* content streams of the page (sequences of operator tokens)
    streams0,       \* the content streams when the call started
    exclude_areas,  \* argument of extract_vector_graphics
    pageInk,        \* non-white, non-text pixels <<x, y>> of the page rendered at scale 1
    gray,           \* the grayscale image of _detect_svg_contours (its non-white pixels)
    contours,       \* Collection returned by _detect_svg_contours (sequence of boxes)
    groups,         \* contours.group(fun): sequence of sets of indices into contours
    images,         \* the list `images` being built
    i,              \* loop index (next image item / next group)
    events,         \* trace of hide_text and rasterization operations of the call
    pix             \* value returned by _recover_pixmap

vars == <<pc, call, doc, items, streams, streams0, exclude_areas, pageInk, gray,
          contours, groups, images, i, events, pix>>

----------------------------------------------------------------------------
(* Bounds of the model *)
MaxItems == 3
MaxContours == 3
MaxExclude == 1
MaxMaskLen == 2
PageW == 60
PageH == 60

(* Program constants *)
clip_image_res_ratio == 3
Pad == 2
Opaque == 255

Max(a, b) == IF a > b THEN a ELSE b
Min(a, b) == IF a < b THEN a ELSE b

----------------------------------------------------------------------------
(* fitz.Rect (PyMuPDF 1.18, the release whose camelCase API the code uses) *)

EmptyRect == <<0, 0, 0, 0>>
PageRect == <<0, 0, PageW, PageH>>

isEmpty(r) == r[1] = r[3] \/ r[2] = r[4]
isInfinite(r) == r[1] > r[3] \/ r[2] > r[4]

\* Rect.intersect: fz_intersect_rect
intersect(a, b) ==
    IF isEmpty(a) \/ isEmpty(b) THEN EmptyRect
    ELSE IF isInfinite(b) THEN a
    ELSE IF isInfinite(a) THEN b
    ELSE LET c == <<Max(a[1], b[1]), Max(a[2], b[2]), Min(a[3], b[3]), Min(a[4], b[4])>>
         IN IF c[3] < c[1] \/ c[4] < c[2] THEN EmptyRect ELSE c

\* Rect.__and__
Rect_and(a, b) == intersect(a, b)

\* Rect.__bool__: false only for the all-zero rectangle
Rect_bool(r) ==
    ~ (Max(Max(r[1], r[2]), Max(r[3], r[4])) = 0 /\ Min(Min(r[1], r[2]), Min(r[3], r[4])) = 0)

\* plausible slip: truthiness of the intersection instead of Rect.intersects
intersects_truthy(a, b) == Rect_bool(Rect_and(a, b))

\* Rect.intersects, as called on line 53
intersects(a, b) ==
    IF isEmpty(a) \/ isInfinite(a) \/ isEmpty(b) THEN FALSE
    ELSE ~ isEmpty(intersect(a, b))

----------------------------------------------------------------------------
(* fitz.Pixmap *)

Pixmap(cs, w, h, a, as, ss) ==
    [colorspace |-> cs, width |-> w, height |-> h, alpha |-> a, asamples |-> as, samples |-> ss]

NoPixmap == Pixmap("None", 0, 0, 0, <<>>, <<>>)

\* fitz.Pixmap(pix, 1): copy of pix with an alpha channel added (opaque)
Pixmap_add_alpha(p) ==
    IF p.alpha = 1 THEN p
    ELSE [p EXCEPT !.alpha = 1, !.asamples = [k \in 1..(p.width * p.height) |-> Opaque]]

\* fitz.Pixmap(fitz.csRGB, pix): conversion to RGB, alpha kept
Pixmap_to_rgb(p) == [p EXCEPT !.colorspace = "DeviceRGB"]

\* page.getPixmap(clip=clip, matrix=fitz.Matrix(zoom, zoom)): RGB render of the clip
getPixmap(clip, zoom) ==
    Pixmap("DeviceRGB", zoom * (clip[3] - clip[1]), zoom * (clip[4] - clip[2]), 0, <<>>, <<>>)

\* Pixmap.getPNGData: the PNG carries the pixel dimensions and channels of the buffer
getPNGData(p) ==
    [width |-> p.width, height |-> p.height, colorspace |-> p.colorspace, alpha |-> p.alpha]

----------------------------------------------------------------------------
(* _recover_pixmap, lines 207-249 *)

\* plausible slip: graded threshold instead of > 0
binarize_half(ba) == [k \in DOMAIN ba |-> IF ba[k] > 127 THEN Opaque ELSE 0]

\* lines 239-240
binarize(ba) == [k \in DOMAIN ba |-> IF ba[k] > 0 THEN Opaque ELSE ba[k]]

\* plausible slip: only CMYK is converted
needs_rgb_cmyk_only(p) == p.colorspace = "DeviceCMYK"

\* condition of line 246
needs_rgb(p) == p.colorspace # "None" /\ ~ (p.colorspace \in {"DeviceGray", "DeviceRGB"})

\* Pixmap.setAlpha raises ValueError unless one alpha byte per pixel is given
setAlpha_ok(p, ba) == p.alpha = 1 /\ Len(ba) = p.width * p.height

\* _recover_pixmap raises (line 241) instead of returning
_recover_pixmap_raises(d, item) ==
    item.smask > 0 /\ ~ setAlpha_ok(Pixmap_add_alpha(d[item.xref]), d[item.smask].samples)

_recover_pixmap(d, item) ==
    LET base == d[item.xref]
        masked == IF item.smask > 0
                  THEN [Pixmap_add_alpha(base) EXCEPT !.asamples = binarize(d[item.smask].samples)]
                  ELSE base
    IN IF needs_rgb(masked) THEN Pixmap_to_rgb(masked) ELSE masked

----------------------------------------------------------------------------
(* _hide_page_text, lines 165-182, and _clip_page, lines 185-204 *)

TextOps == {"BT", "Tm", "Td"}
Hidden == "3 Tr"

\* bytes.replace(op, op + b' 3 Tr') on one stream
RECURSIVE replace(_, _)
replace(s, op) ==
    IF s = <<>> THEN <<>>
    ELSE IF Head(s) = op THEN <<op, Hidden>> \o replace(Tail(s), op)
    ELSE <<Head(s)>> \o replace(Tail(s), op)

\* plausible slip: the rewritten stream is never written back (no updateStream)
_hide_page_text_lost(strs) == strs

_hide_page_text(strs) ==
    [k \in DOMAIN strs |-> replace(replace(replace(strs[k], "BT"), "Tm"), "Td")]

\* some text operator of the page is not switched to the invisible rendering mode
text_visible(strs) ==
    \E k \in DOMAIN strs : \E n \in DOMAIN strs[k] :
        /\ strs[k][n] \in TextOps
        /\ (n = Len(strs[k]) \/ strs[k][n + 1] # Hidden)

HideEvent == [op |-> "hide", kind |-> "text", clip |-> EmptyRect, zoom |-> 0, visible |-> FALSE]
RasterEvent(kind, clip, zoom, strs) ==
    [op |-> "raster", kind |-> kind, clip |-> clip, zoom |-> zoom, visible |-> text_visible(strs)]

NoBbox == <<>>

\* plausible slip: the page is rendered without hiding its text first
_clip_page_no_hide(strs, kind, bbox, zoom) ==
    LET clip == IF bbox = NoBbox THEN PageRect ELSE Rect_and(bbox, PageRect)
    IN [streams |-> strs, pix |-> getPixmap(clip, zoom),
        events |-> <<RasterEvent(kind, clip, zoom, strs)>>]

\* the streams after the call, the pixmap returned, and the operations performed
_clip_page(strs, kind, bbox, zoom) ==
    LET hidden == _hide_page_text(strs)
        clip == IF bbox = NoBbox THEN PageRect ELSE Rect_and(bbox, PageRect)
    IN [streams |-> hidden, pix |-> getPixmap(clip, zoom),
        events |-> <<HideEvent, RasterEvent(kind, clip, zoom, hidden)>>]

----------------------------------------------------------------------------
(* _to_raw_dict, lines 144-162 *)

\* plausible slip: the dimensions of the bbox instead of those of the pixmap
_to_raw_dict_bbox_size(image, bbox) ==
    [type |-> "image", bbox |-> bbox, ext |-> "png",
     width |-> bbox[3] - bbox[1], height |-> bbox[4] - bbox[2], image |-> getPNGData(image)]

_to_raw_dict(image, bbox) ==
    [type |-> "image", bbox |-> bbox, ext |-> "png",
     width |-> image.width, height |-> image.height, image |-> getPNGData(image)]

----------------------------------------------------------------------------
(* _detect_svg_contours, lines 104-141 *)

\* a numpy slice bound k on an axis of length n: negative values count from the end
slice_bound(k, n) == IF k < 0 THEN Max(k + n, 0) ELSE Min(k, n)

\* the indices selected by the slice lo:hi on an axis of length n
in_slice(k, lo, hi, n) == slice_bound(lo, n) <= k /\ k < slice_bound(hi, n)

\* line 118: gray[y0-2:y1+2, x0-2:x1+2] = 255 (rows are y, columns are x)
blank(g, bbox) ==
    {p \in g : ~ ( /\ in_slice(p[2], bbox[2] - Pad, bbox[4] + Pad, PageH)
                   /\ in_slice(p[1], bbox[1] - Pad, bbox[3] + Pad, PageW) )}

\* lines 116-118: the loop over exclude_areas
RECURSIVE exclude(_, _)
exclude(g, areas) ==
    IF areas = <<>> THEN g ELSE exclude(blank(g, Head(areas)), Tail(areas))

\* Bounding boxes cv.boundingRect may report for the blobs of a page (w, h >= 1)
ContourBoxes ==
    { <<0, 0, 10, 10>>, <<5, 5, 15, 15>>, <<12, 12, 30, 30>>,
      <<30, 30, 35, 35>>, <<40, 40, 50, 50>> }

RECURSIVE SeqsUpTo(_, _)
SeqsUpTo(S, n) ==
    IF n = 0 THEN {<<>>}
    ELSE LET shorter == SeqsUpTo(S, n - 1)
         IN shorter \cup {Append(q, x) : q \in {r \in shorter : Len(r) = n - 1}, x \in S}

\* lines 121-135: blur, inverse threshold at 250, close, external contours.  A white
\* image has no foreground; ink (black) stays foreground through blur and close, so
\* at least one contour is reported; which boxes is up to the image library.
find_contours(g) ==
    IF g = {} THEN {<<>>} ELSE SeqsUpTo(ContourBoxes, MaxContours) \ {<<>>}

----------------------------------------------------------------------------
(* Collection.group and Collection.bbox (pdf2docx/common/Collection.py)   *)

\* plausible slip: positive-area overlap (Rect.intersects) as the criterion
fun_intersects(a, b) == intersects(a, b)

\* line 90: fun = lambda a,b: a.bbox & b.bbox, used for its truth value
fun(a, b) == Rect_bool(Rect_and(a, b))

\* the instances linked to those of S by a chain of fun-related instances
RECURSIVE connected(_, _)
connected(S, c) ==
    LET N == {j \in (1..Len(c)) \ S : \E k \in S : fun(c[k], c[j])}
    IN IF N = {} THEN S ELSE connected(S \cup N, c)

RECURSIVE group_from(_, _, _)
group_from(k, counted, c) ==
    IF k > Len(c) THEN <<>>
    ELSE IF k \in counted THEN group_from(k + 1, counted, c)
    ELSE LET g == connected({k}, c)
         IN <<g>> \o group_from(k + 1, counted \cup g, c)

\* Collection.group(fun): clusters as sets of indices, in order of first member
group(c) == group_from(1, {}, c)

\* Collection.bbox: union of the members' boxes
RECURSIVE union_bbox(_)
union_bbox(B) ==
    LET b == CHOOSE x \in B : TRUE
    IN IF B = {b} THEN b
       ELSE LET r == union_bbox(B \ {b})
            IN <<Min(b[1], r[1]), Min(b[2], r[2]), Max(b[3], r[3]), Max(b[4], r[4])>>

group_bbox(c, g) == union_bbox({c[k] : k \in g})

\* plausible slip: the box of the first contour of the group instead of group.bbox
vector_record_first(c, g) ==
    LET bbox == c[CHOOSE k \in g : \A m \in g : k <= m]
    IN _to_raw_dict(getPixmap(bbox, clip_image_res_ratio), bbox)

\* lines 96-98: the record of one group
vector_record(c, g) ==
    LET bbox == group_bbox(c, g)
    IN _to_raw_dict(getPixmap(bbox, clip_image_res_ratio), bbox)

----------------------------------------------------------------------------
(* Inputs *)

ColorSpaces == {"None", "DeviceGray", "DeviceRGB", "DeviceCMYK", "Lab", "Separation"}

\* The objects of the document used by the image lists of ItemKinds:
\* 1 RGB 2x1, 2 CMYK 1x1, 3 stencil (alpha only) 1x1, 4 Gray 2x1,
\* 5 soft mask 1x1 with sample 128, 6 soft mask 2x1 with samples 0 and 255
PageDoc ==
    << Pixmap("DeviceRGB", 2, 1, 0, <<>>, <<>>),
       Pixmap("DeviceCMYK", 1, 1, 0, <<>>, <<>>),
       Pixmap("None", 1, 1, 1, <<255>>, <<>>),
       Pixmap("DeviceGray", 2, 1, 0, <<>>, <<>>),
       Pixmap("DeviceGray", 1, 1, 0, <<>>, <<128>>),
       Pixmap("DeviceGray", 2, 1, 0, <<>>, <<0, 255>>) >>

Item(x, s, ok, b) == [xref |-> x, smask |-> s, placed |-> ok, bbox |-> b]

\* Image references of a page: placed is FALSE when getImageBbox raises ValueError
ItemKinds ==
    { Item(1, 0, TRUE, <<10, 10, 50, 50>>),     \* RGB, inside the page
      Item(2, 5, TRUE, <<50, 50, 70, 70>>),     \* CMYK with soft mask, partly outside
      Item(3, 0, TRUE, <<55, 5, 65, 15>>),      \* stencil, partly outside
      Item(4, 6, TRUE, <<PageW, 0, PageW + 10, 10>>),  \* beside the page, sharing an edge
      Item(1, 0, FALSE, EmptyRect),             \* getImageBbox raises ValueError
      Item(4, 5, TRUE, <<0, 0, 5, 5>>),         \* soft mask of another size than the image
      Item(1, 6, TRUE, <<1, 1, -1, -1>>) }      \* not shown on the page: infinite rect

StreamChoices ==
    { << <<"BT", "Tm", "Tj", "Td", "Tj", "ET">>, <<"re", "f">> >>,
      << <<"q", "BT", "Td", "Tj", "ET", "Q">> >> }

\* a page with text and graphics in separate content streams
VectorStreamChoices == {s \in StreamChoices : Len(s) > 1}

ExcludeBoxes ==
    { <<10, 10, 50, 50>>, <<0, 0, 20, 20>>, <<2, 2, 6, 6>> }

InkSets ==
    { {}, {<<20, 20>>}, {<<1, 1>>}, {<<3, 3>>, <<30, 30>>} }

\* Inputs of _recover_pixmap: a base image and, when smask > 0, its soft mask
BasePixmaps ==
    { Pixmap(cs, w, 1, a, [k \in 1..(a * w) |-> 7], <<>>) :
        cs \in ColorSpaces, w \in 1..MaxMaskLen, a \in {0, 1} }

MaskSamples ==
    { <<v>> \o rest : v \in 0..Opaque, rest \in SeqsUpTo({0, 128, Opaque}, MaxMaskLen - 1) }

MaskPixmaps == { Pixmap("DeviceGray", Len(ss), 1, 0, <<>>, ss) : ss \in MaskSamples }

----------------------------------------------------------------------------
(* extract_images, lines 22-67 *)

InitImages ==
    /\ call = "images" /\ pc = "loop" /\ i = 1
    /\ doc = PageDoc
    /\ items \in SeqsUpTo(ItemKinds, MaxItems)
    /\ streams \in StreamChoices /\ streams0 = streams
    /\ exclude_areas = <<>> /\ pageInk = {} /\ gray = {}
    /\ contours = <<>> /\ groups = <<>>
    /\ images = <<>> /\ events = <<>> /\ pix = NoPixmap

InImagesLoop == call = "images" /\ pc = "loop" /\ i <= Len(items)

\* variant: no try/except around getImageBbox, the ValueError ends the call
ImagePlacementFails_uncaught ==
    /\ InImagesLoop /\ ~ items[i].placed
    /\ pc' = "raised"
    /\ UNCHANGED <<call, doc, items, streams, streams0, exclude_areas, pageInk, gray,
                   contours, groups, images, i, events, pix>>

\* lines 45-50: getImageBbox raises ValueError, the item is skipped
ImagePlacementFails ==
    /\ InImagesLoop /\ ~ items[i].placed
    /\ i' = i + 1
    /\ UNCHANGED <<pc, call, doc, items, streams, streams0, exclude_areas, pageInk, gray,
                   contours, groups, images, events, pix>>

\* line 53: images outside the page are ignored
ImageOutsidePage ==
    /\ InImagesLoop /\ items[i].placed
    /\ ~ intersects(items[i].bbox, PageRect)
    /\ i' = i + 1
    /\ UNCHANGED <<pc, call, doc, items, streams, streams0, exclude_areas, pageInk, gray,
                   contours, groups, images, events, pix>>

\* line 56: an error of _recover_pixmap is not caught
ImageRecoverRaises ==
    /\ InImagesLoop /\ items[i].placed
    /\ intersects(items[i].bbox, PageRect)
    /\ _recover_pixmap_raises(doc, items[i])
    /\ pc' = "raised"
    /\ UNCHANGED <<call, doc, items, streams, streams0, exclude_areas, pageInk, gray,
                   contours, groups, images, i, events, pix>>

\* lines 56, 65-66: the recovered pixmap has a colorspace
ImageRecovered ==
    /\ InImagesLoop /\ items[i].placed
    /\ intersects(items[i].bbox, PageRect)
    /\ ~ _recover_pixmap_raises(doc, items[i])
    /\ LET p == _recover_pixmap(doc, items[i])
       IN /\ p.colorspace # "None"
          /\ pix' = p
          /\ images' = Append(images, _to_raw_dict(p, items[i].bbox))
    /\ i' = i + 1
    /\ UNCHANGED <<pc, call, doc, items, streams, streams0, exclude_areas, pageInk, gray,
                   contours, groups, events>>

\* lines 56-66: the recovered pixmap has no colorspace, the page is clipped instead
ImageAlphaOnly ==
    /\ InImagesLoop /\ items[i].placed
    /\ intersects(items[i].bbox, PageRect)
    /\ ~ _recover_pixmap_raises(doc, items[i])
    /\ LET p == _recover_pixmap(doc, items[i])
           r == _clip_page(streams, "alpha", items[i].bbox, clip_image_res_ratio)
       IN /\ p.colorspace = "None"
          /\ pix' = p
          /\ streams' = r.streams
          /\ events' = events \o r.events
          /\ images' = Append(images, _to_raw_dict(r.pix, items[i].bbox))
    /\ i' = i + 1
    /\ UNCHANGED <<pc, call, doc, items, streams0, exclude_areas, pageInk, gray,
                   contours, groups>>

\* line 67
ImagesReturn ==
    /\ call = "images" /\ pc = "loop" /\ i > Len(items)
    /\ pc' = "done"
    /\ UNCHANGED <<call, doc, items, streams, streams0, exclude_areas, pageInk, gray,
                   contours, groups, images, i, events, pix>>

----------------------------------------------------------------------------
(* extract_vector_graphics, lines 70-101 *)

InitVector ==
    /\ call = "vector" /\ pc = "call" /\ i = 1
    /\ doc = PageDoc /\ items = <<>>
    /\ streams \in VectorStreamChoices /\ streams0 = streams
    /\ exclude_areas \in SeqsUpTo(ExcludeBoxes, MaxExclude)
    /\ pageInk \in InkSets /\ gray = {}
    /\ contours = <<>> /\ groups = <<>>
    /\ images = <<>> /\ events = <<>> /\ pix = NoPixmap

\* line 87: _detect_svg_contours (the debug window of lines 138-139 shows src only)
DetectContours ==
    /\ call = "vector" /\ pc = "call"
    /\ LET r == _clip_page(streams, "detect", NoBbox, 1)
           g == exclude(pageInk, exclude_areas)
       IN /\ streams' = r.streams
          /\ events' = events \o r.events
          /\ gray' = g
          /\ contours' \in find_contours(g)
    /\ pc' = "detected"
    /\ UNCHANGED <<call, doc, items, streams0, exclude_areas, pageInk, groups, images, i, pix>>

\* lines 90-91
GroupContours ==
    /\ call = "vector" /\ pc = "detected"
    /\ groups' = group(contours)
    /\ pc' = "clip"
    /\ UNCHANGED <<call, doc, items, streams, streams0, exclude_areas, pageInk, gray,
                   contours, images, i, events, pix>>

\* lines 95-99: one iteration of the loop over groups
ClipGroup ==
    /\ call = "vector" /\ pc = "clip" /\ i <= Len(groups)
    /\ LET rec == vector_record(contours, groups[i])
       IN /\ events' = Append(events,
                 RasterEvent("cluster", rec.bbox, clip_image_res_ratio, streams))
          /\ images' = Append(images, rec)
    /\ i' = i + 1
    /\ UNCHANGED <<pc, call, doc, items, streams, streams0, exclude_areas, pageInk, gray,
                   contours, groups, pix>>

\* line 101
VectorReturn ==
    /\ call = "vector" /\ pc = "clip" /\ i > Len(groups)
    /\ pc' = "done"
    /\ UNCHANGED <<call, doc, items, streams, streams0, exclude_areas, pageInk, gray,
                   contours, groups, images, i, events, pix>>

Init == InitImages \/ InitVector

Next ==
    \/ ImagePlacementFails
    \/ ImageOutsidePage
    \/ ImageRecoverRaises
    \/ ImageRecovered
    \/ ImageAlphaOnly
    \/ ImagesReturn
    \/ DetectContours
    \/ GroupContours
    \/ ClipGroup
    \/ VectorReturn

Spec == Init /\ [][Next]_vars

----------------------------------------------------------------------------
(* _recover_pixmap applied to one image reference *)

InitPixmap ==
    /\ call = "pixmap" /\ pc = "call" /\ i = 1
    /\ \E base \in BasePixmaps :
         \/ /\ doc = <<base, base>>
            /\ items = <<Item(1, 0, TRUE, PageRect)>>
         \/ \E mask \in MaskPixmaps :
            /\ doc = <<base, mask>>
            /\ items = <<Item(1, 2, TRUE, PageRect)>>
    /\ streams = <<>> /\ streams0 = <<>>
    /\ exclude_areas = <<>> /\ pageInk = {} /\ gray = {}
    /\ contours = <<>> /\ groups = <<>>
    /\ images = <<>> /\ events = <<>> /\ pix = NoPixmap

RecoverReturns ==
    /\ call = "pixmap" /\ pc = "call"
    /\ ~ _recover_pixmap_raises(doc, items[1])
    /\ pix' = _recover_pixmap(doc, items[1])
    /\ pc' = "done"
    /\ UNCHANGED <<call, doc, items, streams, streams0, exclude_areas, pageInk, gray,
                   contours, groups, images, i, events>>

RecoverRaises ==
    /\ call = "pixmap" /\ pc = "call"
    /\ _recover_pixmap_raises(doc, items[1])
    /\ pc' = "raised"
    /\ UNCHANGED <<call, doc, items, streams, streams0, exclude_areas, pageInk, gray,
                   contours, groups, images, i, events, pix>>

NextPixmap == RecoverReturns \/ RecoverRaises

SpecPixmap == InitPixmap /\ [][NextPixmap]_vars

----------------------------------------------------------------------------
(* Properties of extract_images *)

\* The box has positive area and shares a region of positive area with the page
OverlapsPage(b) ==
    /\ b[1] < b[3] /\ b[2] < b[4]
    /\ Max(b[1], 0) < Min(b[3], PageW)
    /\ Max(b[2], 0) < Min(b[4], PageH)

RECURSIVE ExpectedBboxes(_)
ExpectedBboxes(its) ==
    IF its = <<>> THEN <<>>
    ELSE (IF Head(its).placed /\ OverlapsPage(Head(its).bbox) THEN <<Head(its).bbox>> ELSE <<>>)
         \o ExpectedBboxes(Tail(its))

\* C1: extract_images yields exactly one record, in list order, for each image
\* reference whose placement bbox is computed and intersects page.rect, none for
\* the others, and each record carries that reference's placement bbox.
C1_OneRecordPerPlacedImage ==
    call = "images" =>
        /\ [k \in DOMAIN images |-> images[k].bbox] = ExpectedBboxes(SubSeq(items, 1, i - 1))
        /\ (pc = "done" => i = Len(items) + 1)

C1_Witness ==
    /\ call = "images" /\ pc = "done"
    /\ Len(images) = 2 /\ Len(items) = 3
    /\ \E k \in DOMAIN items : items[k].placed /\ ~ OverlapsPage(items[k].bbox)

\* C7: a ValueError of the placement computation is not fatal: the step that meets
\* it leaves the call running, adds no record, and changes nothing but the position
\* in the list, so the other references are handled as if it were absent.
C7_PlacementFailureSkipped ==
    [][ (call = "images" /\ pc = "loop" /\ i <= Len(items) /\ ~ items[i].placed)
        => ( /\ pc' = "loop" /\ i' = i + 1
             /\ images' = images /\ streams' = streams /\ events' = events
             /\ items' = items /\ doc' = doc ) ]_vars

C7_Witness ==
    /\ call = "images" /\ pc = "done"
    /\ Len(items) = 3 /\ ~ items[2].placed
    /\ Len(images) = 2

\* C8 as stated: extract_images never rewrites the content streams and never
\* applies hide_text, whatever the image references are.
C8_NoSideEffect ==
    call = "images" =>
        /\ streams = streams0
        /\ \A k \in DOMAIN events : events[k].op # "hide"

\* the image references before position n that are clipped from the page:
\* placed on the page and decoded to a buffer without colorspace
ClippedItems(n) ==
    {k \in 1..n : /\ items[k].placed /\ OverlapsPage(items[k].bbox)
                  /\ doc[items[k].xref].colorspace = "None"}

RECURSIVE Repeat(_, _)
Repeat(x, n) == IF n = 0 THEN <<>> ELSE <<x>> \o Repeat(x, n - 1)

\* the stream with n text-hiding operators after each text operator
RECURSIVE HiddenTimes(_, _)
HiddenTimes(s, n) ==
    IF s = <<>> THEN <<>>
    ELSE <<Head(s)>> \o (IF Head(s) \in TextOps THEN Repeat(Hidden, n) ELSE <<>>)
         \o HiddenTimes(Tail(s), n)

\* C8 amended: extract_images applies hide_text exactly once for each processed
\* reference whose reconstructed buffer has no colorspace, and never otherwise;
\* with no such reference the content streams are as before the call.
C8_HideOnlyForAlphaOnly ==
    call = "images" =>
        LET n == Cardinality(ClippedItems(i - 1))
        IN /\ Cardinality({k \in DOMAIN events : events[k].op = "hide"}) = n
           /\ streams = [k \in DOMAIN streams0 |-> HiddenTimes(streams0[k], n)]
           /\ (n = 0 => streams = streams0)

C8_Witness ==
    /\ call = "images" /\ pc = "done"
    /\ Cardinality(ClippedItems(Len(items))) = 2
    /\ streams # streams0

\* C9: every record has a bbox of positive width and height, and its width and
\* height are the pixel dimensions of the buffer encoded into it.
C9_RecordShape ==
    \A k \in DOMAIN images :
        /\ images[k].bbox[3] > images[k].bbox[1]
        /\ images[k].bbox[4] > images[k].bbox[2]
        /\ images[k].width = images[k].image.width
        /\ images[k].height = images[k].image.height

C9_Witness ==
    /\ call = "images" /\ pc = "done"
    /\ \E k \in DOMAIN images :
         /\ doc[items[k].xref].colorspace = "None"
         /\ Len(images) = Len(items)
         /\ images[k].width # clip_image_res_ratio * (images[k].bbox[3] - images[k].bbox[1])

\* C10: every rasterization of the page comes after hide_text in the same call,
\* and finds every text operator of the page switched to invisible.
C10_HiddenBeforeRaster ==
    \A k \in DOMAIN events :
        events[k].op = "raster" =>
            /\ \E j \in 1..(k - 1) : events[j].op = "hide"
            /\ ~ events[k].visible

C10_Witness ==
    /\ call = "vector" /\ pc = "done"
    /\ Len(images) = 2
    /\ events[Len(events)].kind = "cluster"

----------------------------------------------------------------------------
(* Properties of extract_vector_graphics *)

\* the smallest box containing the boxes of B
BoundingBoxOf(B) ==
    << CHOOSE v \in {b[1] : b \in B} : \A b \in B : v <= b[1],
       CHOOSE v \in {b[2] : b \in B} : \A b \in B : v <= b[2],
       CHOOSE v \in {b[3] : b \in B} : \A b \in B : v >= b[3],
       CHOOSE v \in {b[4] : b \in B} : \A b \in B : v >= b[4] >>

\* C2: extract_vector_graphics returns one record per cluster of the grouping, with
\* the cluster's bounding box; an empty contour set gives an empty list, no error.
C2_OneRecordPerCluster ==
    call = "vector" =>
        /\ pc # "raised"
        /\ (pc = "done" =>
             /\ Len(images) = Len(groups)
             /\ \A k \in DOMAIN images :
                    images[k].bbox = BoundingBoxOf({contours[m] : m \in groups[k]})
             /\ (contours = <<>> => images = <<>>))

C2_Witness ==
    /\ call = "vector" /\ pc = "done"
    /\ contours = << <<0, 0, 10, 10>>, <<5, 5, 15, 15>> >>
    /\ Len(images) = 1 /\ images[1].bbox = <<0, 0, 15, 15>>

\* two boxes have a point in common
BoxesMeet(a, b) ==
    /\ Max(a[1], b[1]) <= Min(a[3], b[3])
    /\ Max(a[2], b[2]) <= Min(a[4], b[4])

\* the contour indices joined to those of S by a chain of boxes that meet pairwise
RECURSIVE Reach(_, _)
Reach(S, c) ==
    LET T == S \cup {b \in 1..Len(c) : \E a \in S : BoxesMeet(c[a], c[b])}
    IN IF T = S THEN S ELSE Reach(T, c)

ClusterBoxes(c, gs) == {{c[m] : m \in gs[k]} : k \in DOMAIN gs}

\* C3: the clusters are the connected components of the graph of pairwise
\* intersecting boxes, and every permutation of the contour list gives the same
\* clusters as sets of boxes.
C3_ConnectedComponents ==
    (call = "vector" /\ pc = "clip" /\ i = 1) =>
        LET n == Len(contours)
        IN /\ \A a \in 1..n :
                  LET R == Reach({a}, contours)
                  IN \A b \in 1..n :
                         (\E k \in DOMAIN groups : a \in groups[k] /\ b \in groups[k]) <=> (b \in R)
           /\ \A k, m \in DOMAIN groups : k # m => groups[k] \cap groups[m] = {}
           /\ LET clusters == ClusterBoxes(contours, groups)
              IN \A f \in Permutations(1..n) :
                     LET permuted == [k \in 1..n |-> contours[f[k]]]
                     IN ClusterBoxes(permuted, group(permuted)) = clusters

C3_Witness ==
    /\ call = "vector" /\ pc = "clip" /\ i = 1
    /\ contours = << <<0, 0, 10, 10>>, <<12, 12, 30, 30>>, <<5, 5, 15, 15>> >>
    /\ Len(groups) = 1
    /\ group_bbox(contours, groups[1]) = <<0, 0, 30, 30>>

\* the pixel lies in the box padded by Pad pixels on each side
InPadded(p, b) ==
    /\ b[1] - Pad <= p[1] /\ p[1] < b[3] + Pad
    /\ b[2] - Pad <= p[2] /\ p[2] < b[4] + Pad

InBox(p, b) == b[1] <= p[1] /\ p[1] < b[3] /\ b[2] <= p[2] /\ p[2] < b[4]

\* C6: after the exclusion pass no pixel of a padded exclusion box is left non-white,
\* so ink lying inside exclusion boxes yields no contour and no record.
C6_ExclusionBlanked ==
    (call = "vector" /\ pc # "call") =>
        /\ \A k \in DOMAIN exclude_areas : \A p \in gray : ~ InPadded(p, exclude_areas[k])
        /\ ((\A p \in pageInk : \E k \in DOMAIN exclude_areas : InBox(p, exclude_areas[k]))
               => (contours = <<>> /\ images = <<>>))

----------------------------------------------------------------------------
(* Properties of _recover_pixmap *)

\* C4: the returned buffer has colorspace None, Gray or RGB: any other colorspace
\* of the base image is converted to RGB, and a buffer without colorspace is
\* returned as decoded.
C4_ColorSpace ==
    (call = "pixmap" /\ pc = "done") =>
        LET base == doc[items[1].xref].colorspace
        IN /\ pix.colorspace \in {"None", "DeviceGray", "DeviceRGB"}
           /\ pix.colorspace = (IF base \in {"None", "DeviceGray", "DeviceRGB"}
                                THEN base ELSE "DeviceRGB")
           /\ ((base = "None" /\ items[1].smask = 0) => pix = doc[items[1].xref])

C4_Witness ==
    /\ call = "pixmap" /\ pc = "done"
    /\ doc[1].colorspace = "Lab" /\ items[1].smask > 0
    /\ pix.colorspace = "DeviceRGB"

\* C5: with a soft mask, every alpha sample of the returned buffer is 255 where
\* the mask sample is > 0 and 0 where it is 0.
C5_BinaryAlpha ==
    (call = "pixmap" /\ pc = "done" /\ items[1].smask > 0) =>
        LET mask == doc[items[1].smask].samples
        IN /\ pix.alpha = 1
           /\ DOMAIN pix.asamples = DOMAIN mask
           /\ \A k \in DOMAIN mask :
                  /\ pix.asamples[k] \in {0, 255}
                  /\ (pix.asamples[k] = 255 <=> mask[k] > 0)

C5_Witness ==
    /\ call = "pixmap" /\ pc = "done" /\ items[1].smask > 0
    /\ doc[items[1].smask].samples = <<128, 128>>
    /\ pix.asamples = <<255, 255>>

====
